---- MODULE Spec2Model ----
(***************************************************************************)
(* Model of connectorx/src/sources/trino/mod.rs: the Trino source          *)
(* (TrinoSource), its partitions (TrinoSourcePartition) and the positional *)
(* value producer (TrinoSourcePartitionParser) with its Produce impls.     *)
(***************************************************************************)
EXTENDS Integers, Sequences, FiniteSets, TLC

(***************************************************************************)
(* Bounds of the model.                                                    *)
(***************************************************************************)
\* largest number of rows a query returns
MaxRows == 2
\* largest number of fetch_metadata calls on one Source
MaxMeta == 2
\* largest length of a query list handed to set_queries
MaxQueries == 2

(***************************************************************************)
(* serde_json::Value.  Every value is a record of one shape:               *)
(*   tag  : "Null" | "Bool" | "Number" | "String" | "Array"                *)
(*   kind : for a Number the variant of serde_json's N: "PosInt" (u64),    *)
(*          "NegInt" (i64, negative) or "Float" (f64); "" otherwise        *)
(*   s    : the text of a String; "" otherwise                             *)
(*   hi,lo: an integer, written  Anchor(hi) + lo  with Anchor(0) = 0,      *)
(*          Anchor(k) = 2^k and Anchor(-k) = -2^k for k > 0, so that the   *)
(*          64-bit boundaries are exact although TLC's integers have 32    *)
(*          bits.  Offsets are small: |lo| <= 27 at anchor 0 and           *)
(*          |lo| <= 100 at the anchors 2^7, 2^15, 2^31, 2^63, so the order *)
(*          of the integers is the lexicographic order of (hi, lo).        *)
(*   frac : the fractional part of a Float in units of 2^-30;              *)
(*          for a Bool, 1 for true and 0 for false                         *)
(* Produced values (i8 .. NaiveDateTime) use the same shape with tag the   *)
(* Rust type.                                                              *)
(***************************************************************************)
Rec(tag, kind, s, hi, lo, frac) ==
    [tag |-> tag, kind |-> kind, s |-> s, hi |-> hi, lo |-> lo, frac |-> frac]

NoVal == Rec("", "", "", 0, 0, 0)

JNull == Rec("Null", "", "", 0, 0, 0)
JBool(b) == Rec("Bool", "", "", 0, 0, IF b THEN 1 ELSE 0)
JPosInt(hi, lo) == Rec("Number", "PosInt", "", hi, lo, 0)
JNegInt(hi, lo) == Rec("Number", "NegInt", "", hi, lo, 0)
JFloat(lo, frac) == Rec("Number", "Float", "", 0, lo, frac)
JString(x) == Rec("String", "", x, 0, 0, 0)
JArray == Rec("Array", "", "", 0, 0, 0)

\* the integer order on (hi, lo) pairs
IntLeq(a, b) == a.hi < b.hi \/ (a.hi = b.hi /\ a.lo <= b.lo)

\* <$t>::MIN and <$t>::MAX of the signed integer of width w: -2^(w-1), 2^(w-1)-1
IntMin(w) == [hi |-> -(w - 1), lo |-> 0]
IntMax(w) == [hi |-> w - 1, lo |-> -1]

IntTargets == {"i8", "i16", "i32", "i64"}
FloatTargets == {"f32", "f64"}
TextTargets == {"String", "char"}
Targets == IntTargets \cup FloatTargets \cup TextTargets
               \cup {"bool", "NaiveDateTime", "NaiveTime", "NaiveDate"}

Width(t) == CASE t = "i8" -> 8 [] t = "i16" -> 16 [] t = "i32" -> 32 [] t = "i64" -> 64

\* serde_json::Number::is_i64: PosInt(v) => v <= i64::MAX, NegInt => true, Float => false
is_i64(x) ==
    CASE x.kind = "PosInt" -> IntLeq(x, IntMax(64))
      [] x.kind = "NegInt" -> TRUE
      [] OTHER -> FALSE

\* serde_json::Number::as_i64, taken where is_i64 holds: the integer itself
as_i64(x) == [hi |-> x.hi, lo |-> x.lo]

\* serde_json::Number::is_f64: true for the Float variant only
is_f64(x) == x.kind = "Float"

\* serde_json::Number::as_f64: Float(n) => n; an integer n => n as f64, which
\* is exact below 2^53 and rounds to the anchor at 2^63
as_f64(x) ==
    IF x.kind = "Float" THEN [hi |-> x.hi, lo |-> x.lo, frac |-> x.frac]
    ELSE [hi |-> x.hi,
          lo |-> IF x.hi = 63 \/ x.hi = -63 THEN 0 ELSE x.lo,
          frac |-> 0]

\* try_from with the upper bound excluded
TryFromI64OffByOne(t, v) ==
    /\ IntLeq(IntMin(Width(t)), v)
    /\ IntLeq(v, IntMax(Width(t)))
    /\ v # IntMax(Width(t))

\* <$t>::try_from(i64): Some(v) iff MIN <= v <= MAX
TryFromI64(t, v) == IntLeq(IntMin(Width(t)), v) /\ IntLeq(v, IntMax(Width(t)))

\* `as $t` of an f64: the identity for f64; for f32 the mantissa keeps 23
\* fractional bits, so in [1, 2) the units of 2^-30 round to multiples of 2^7
\* (model Floats lie in [1, 2))
F32Unit == 128
CastFloat(t, f) ==
    IF t = "f64" THEN f
    ELSE [f EXCEPT !.frac = ((f.frac + (F32Unit \div 2)) \div F32Unit) * F32Unit]

(***************************************************************************)
(* Results of an operation: Ok (a plain value, Some(v) or None), Err (the  *)
(* error value returned through #[throws]) or Panic (the thread unwinds).  *)
(* An error of produce is anyhow!(msg, ridx, cidx[, value]): `at` is the   *)
(* position formatted into the message and `v` the raw value when the      *)
(* message prints it.                                                      *)
(***************************************************************************)
Res(st, opt, v, msg, at) == [st |-> st, opt |-> opt, v |-> v, msg |-> msg, at |-> at]
NoRes == Res("", "", NoVal, "", <<0, 0>>)
Ok(v) == Res("Ok", "Plain", v, "", <<0, 0>>)
OkSome(v) == Res("Ok", "Some", v, "", <<0, 0>>)
OkNone == Res("Ok", "None", NoVal, "", <<0, 0>>)
Err(msg, ridx, cidx, v) == Res("Err", "", v, msg, <<ridx, cidx>>)
Panic(msg) == Res("Panic", "", NoVal, msg, <<0, 0>>)

MsgNumber == "Trino cannot parse Number at position"
MsgString == "Trino cannot parse String at position"
MsgTime == "Trino cannot parse Time at position"
MsgDate == "Trino cannot parse Date at position"
MsgUnknown == "Trino unknown value at position"

(***************************************************************************)
(* The parsers of the text targets over the strings of the model.          *)
(***************************************************************************)
\* <String as FromStr>::from_str never fails and copies the text;
\* <char as FromStr>::from_str succeeds on a string of exactly one character
ParseText(t, x) ==
    IF t = "String" THEN [ok |-> TRUE, v |-> Rec("String", "", x, 0, 0, 0)]
    ELSE IF Len(x) = 1 THEN [ok |-> TRUE, v |-> Rec("char", "", x, 0, 0, 0)]
    ELSE [ok |-> FALSE, v |-> NoVal]

\* NaiveDate::parse_from_str(x, "%Y-%m-%d"): hi is the date as yyyymmdd
ParseDate(x) ==
    IF x = "2024-01-02" THEN [ok |-> TRUE, v |-> Rec("NaiveDate", "", "", 20240102, 0, 0)]
    ELSE [ok |-> FALSE, v |-> NoVal]

\* NaiveTime::parse_from_str(x, "%H:%M:%S%.f"): lo is the second of the day,
\* frac the nanoseconds; an hour of 25 is out of range
ParseTime(x) ==
    IF x = "23:59:59.123456"
    THEN [ok |-> TRUE, v |-> Rec("NaiveTime", "", "", 0, 86399, 123456000)]
    ELSE [ok |-> FALSE, v |-> NoVal]

\* NaiveDateTime::parse_from_str(x, "%Y-%m-%d %H:%M:%S%.f")
ParseDateTime(x) ==
    IF x = "2024-01-02 03:04:05.678"
    THEN [ok |-> TRUE, v |-> Rec("NaiveDateTime", "", "", 20240102, 11045, 678000000)]
    ELSE [ok |-> FALSE, v |-> NoVal]

(***************************************************************************)
(* The bodies of Produce::produce after next_loc, one operator per impl:   *)
(* `value` is rows[ridx].value()[cidx].                                    *)
(***************************************************************************)
IntVal(t, v) == Rec(t, "", "", v.hi, v.lo, 0)
FloatVal(t, f) == Rec(t, "", "", f.hi, f.lo, f.frac)

\* impl_produce_int, Produce<$t>
ProduceInt(t, value, ridx, cidx) ==
    IF value.tag = "Number"
    THEN IF is_i64(value)
         THEN IF TryFromI64(t, as_i64(value))
              THEN Ok(IntVal(t, as_i64(value)))
              ELSE Err(MsgNumber, ridx, cidx, NoVal)
         ELSE Err(MsgNumber, ridx, cidx, NoVal)
    ELSE Err(MsgNumber, ridx, cidx, NoVal)

\* impl_produce_int, Produce<Option<$t>>
ProduceOptInt(t, value, ridx, cidx) ==
    IF value.tag = "Null" THEN OkNone
    ELSE IF value.tag = "Number"
    THEN IF is_i64(value)
         THEN IF TryFromI64(t, as_i64(value))
              THEN OkSome(IntVal(t, as_i64(value)))
              ELSE Err(MsgNumber, ridx, cidx, NoVal)
         ELSE Err(MsgNumber, ridx, cidx, NoVal)
    ELSE Err(MsgNumber, ridx, cidx, NoVal)

\* impl_produce_float, Produce<$t>
ProduceFloat(t, value, ridx, cidx) ==
    IF value.tag = "Number"
    THEN IF is_f64(value)
         THEN Ok(FloatVal(t, CastFloat(t, as_f64(value))))
         ELSE Err(MsgNumber, ridx, cidx, NoVal)
    ELSE Err(MsgNumber, ridx, cidx, NoVal)

\* impl_produce_float, Produce<Option<$t>>
ProduceOptFloat(t, value, ridx, cidx) ==
    IF value.tag = "Null" THEN OkNone
    ELSE IF value.tag = "Number"
    THEN IF is_f64(value)
         THEN OkSome(FloatVal(t, CastFloat(t, as_f64(value))))
         ELSE Err(MsgNumber, ridx, cidx, NoVal)
    ELSE Err(MsgNumber, ridx, cidx, NoVal)

\* impl_produce_text, Produce<$t>
ProduceText(t, value, ridx, cidx) ==
    IF value.tag = "String"
    THEN IF ParseText(t, value.s).ok
         THEN Ok(ParseText(t, value.s).v)
         ELSE Err(MsgString, ridx, cidx, value)
    ELSE Err(MsgUnknown, ridx, cidx, value)

\* the nullable text impl answering None for every cell that is no String
ProduceOptTextLenient(t, value, ridx, cidx) ==
    IF value.tag = "String"
    THEN IF ParseText(t, value.s).ok
         THEN OkSome(ParseText(t, value.s).v)
         ELSE Err(MsgString, ridx, cidx, value)
    ELSE OkNone

\* impl_produce_text, Produce<Option<$t>>
ProduceOptText(t, value, ridx, cidx) ==
    IF value.tag = "Null" THEN OkNone
    ELSE IF value.tag = "String"
    THEN IF ParseText(t, value.s).ok
         THEN OkSome(ParseText(t, value.s).v)
         ELSE Err(MsgString, ridx, cidx, value)
    ELSE Err(MsgUnknown, ridx, cidx, value)

\* impl_produce_timestamp, Produce<NaiveDateTime>
ProduceTimestamp(value, ridx, cidx) ==
    IF value.tag = "String"
    THEN IF ParseDateTime(value.s).ok
         THEN Ok(ParseDateTime(value.s).v)
         ELSE Err(MsgString, ridx, cidx, value)
    ELSE Err(MsgUnknown, ridx, cidx, value)

\* impl_produce_timestamp, Produce<Option<NaiveDateTime>>
ProduceOptTimestamp(value, ridx, cidx) ==
    IF value.tag = "Null" THEN OkNone
    ELSE IF value.tag = "String"
    THEN IF ParseDateTime(value.s).ok
         THEN OkSome(ParseDateTime(value.s).v)
         ELSE Err(MsgString, ridx, cidx, value)
    ELSE Err(MsgUnknown, ridx, cidx, value)

\* impl_produce_bool, Produce<bool>
ProduceBool(value, ridx, cidx) ==
    IF value.tag = "Bool"
    THEN Ok(Rec("bool", "", "", 0, 0, value.frac))
    ELSE Err(MsgUnknown, ridx, cidx, value)

\* impl_produce_bool, Produce<Option<bool>>
ProduceOptBool(value, ridx, cidx) ==
    IF value.tag = "Null" THEN OkNone
    ELSE IF value.tag = "Bool"
    THEN OkSome(Rec("bool", "", "", 0, 0, value.frac))
    ELSE Err(MsgUnknown, ridx, cidx, value)

\* Produce<NaiveTime>
ProduceTime(value, ridx, cidx) ==
    IF value.tag = "String"
    THEN IF ParseTime(value.s).ok
         THEN Ok(ParseTime(value.s).v)
         ELSE Err(MsgString, ridx, cidx, value)
    ELSE Err(MsgUnknown, ridx, cidx, value)

\* Produce<Option<NaiveTime>>
ProduceOptTime(value, ridx, cidx) ==
    IF value.tag = "Null" THEN OkNone
    ELSE IF value.tag = "String"
    THEN IF ParseTime(value.s).ok
         THEN OkSome(ParseTime(value.s).v)
         ELSE Err(MsgTime, ridx, cidx, value)
    ELSE Err(MsgUnknown, ridx, cidx, value)

\* Produce<NaiveDate>
ProduceDate(value, ridx, cidx) ==
    IF value.tag = "String"
    THEN IF ParseDate(value.s).ok
         THEN Ok(ParseDate(value.s).v)
         ELSE Err(MsgDate, ridx, cidx, value)
    ELSE Err(MsgUnknown, ridx, cidx, value)

\* Produce<Option<NaiveDate>>
ProduceOptDate(value, ridx, cidx) ==
    IF value.tag = "Null" THEN OkNone
    ELSE IF value.tag = "String"
    THEN IF ParseDate(value.s).ok
         THEN OkSome(ParseDate(value.s).v)
         ELSE Err(MsgDate, ridx, cidx, value)
    ELSE Err(MsgUnknown, ridx, cidx, value)

\* the impl the compiler selects for produce::<T> (nullable = FALSE) or
\* produce::<Option<T>> (nullable = TRUE)
Convert(t, nullable, value, ridx, cidx) ==
    CASE t \in IntTargets ->
            IF nullable THEN ProduceOptInt(t, value, ridx, cidx)
            ELSE ProduceInt(t, value, ridx, cidx)
      [] t \in FloatTargets ->
            IF nullable THEN ProduceOptFloat(t, value, ridx, cidx)
            ELSE ProduceFloat(t, value, ridx, cidx)
      [] t \in TextTargets ->
            IF nullable THEN ProduceOptText(t, value, ridx, cidx)
            ELSE ProduceText(t, value, ridx, cidx)
      [] t = "NaiveDateTime" ->
            IF nullable THEN ProduceOptTimestamp(value, ridx, cidx)
            ELSE ProduceTimestamp(value, ridx, cidx)
      [] t = "bool" ->
            IF nullable THEN ProduceOptBool(value, ridx, cidx)
            ELSE ProduceBool(value, ridx, cidx)
      [] t = "NaiveTime" ->
            IF nullable THEN ProduceOptTime(value, ridx, cidx)
            ELSE ProduceTime(value, ridx, cidx)
      [] t = "NaiveDate" ->
            IF nullable THEN ProduceOptDate(value, ridx, cidx)
            ELSE ProduceDate(value, ridx, cidx)

(***************************************************************************)
(* The remote engine (prusto Client::get_all): a fixed catalogue of        *)
(* queries, each with its column descriptors; the rows are drawn in Init.  *)
(***************************************************************************)
QA == "SELECT id, name FROM t"
QB == "SELECT x FROM u"
QC == "SELECT a, arr FROM v"
Queries == {QA, QB, QC}

\* the (name, remote type) pairs of DataSet::split().0 for a query
Columns(q) ==
    CASE q = QA -> << <<"id", "bigint">>, <<"name", "varchar">> >>
      [] q = QB -> << <<"x", "tinyint">> >>
      [] q = QC -> << <<"a", "double">>, <<"arr", "array(integer)">> >>

\* the JSON values the cells are drawn from
Values ==
    << JPosInt(0, 1), JString("a"), JPosInt(0, 2), JNull, JBool(TRUE),
       JPosInt(7, -1), JPosInt(7, 0), JPosInt(7, 72), JNegInt(-7, 0),
       JNegInt(-7, -1), JPosInt(15, 0), JPosInt(31, 0), JPosInt(63, -1),
       JPosInt(63, 0), JFloat(1, 536870912), JFloat(1, 1), JString("ab"),
       JString("2024-01-02"), JString("23:59:59.123456"), JString("25:00:00"),
       JString("2024-01-02 03:04:05.678"), JArray >>

\* the rows of a query's result: n rows as wide as the query's columns, the
\* cells taken from Values in row-major order starting at offset seed
RowsOf(q, d) ==
    [r \in 1..d.n |->
        [c \in 1..Len(Columns(q)) |->
            Values[((d.seed + (r - 1) * Len(Columns(q)) + (c - 1)) % Len(Values)) + 1]]]

Databases == {d \in [seed : 0..(Len(Values) - 1), n : 0..MaxRows] : d.n = 0 => d.seed = 0}

\* limit1_query(first_query, &GenericDialect {}): the query wrapped so that
\* it returns at most one row; its columns are those of the query
limit1_query(q) == [sql |-> q, limit |-> 1]

\* TrinoTypeSystem::try_from(remote type): the TypeTag, "" when unsupported
TryFromTrinoType(ty) ==
    CASE ty = "tinyint" -> "Int8"
      [] ty = "smallint" -> "Int16"
      [] ty = "integer" -> "Int32"
      [] ty = "bigint" -> "Int64"
      [] ty = "real" -> "Float32"
      [] ty = "double" -> "Float64"
      [] ty = "boolean" -> "Bool"
      [] ty = "varchar" -> "String"
      [] ty = "char" -> "String"
      [] ty = "date" -> "Date"
      [] ty = "time" -> "Time"
      [] ty = "timestamp" -> "Timestamp"
      [] OTHER -> ""

(***************************************************************************)
(* State.                                                                  *)
(***************************************************************************)
VARIABLES
    db,            \* the remote data: [seed, n]
    srcState,      \* TrinoSource: "live", "consumed" (by partition()), "panicked"
    origin_query,  \* TrinoSource.origin_query: <<>> for None, <<q>> for Some(q)
    queries,       \* TrinoSource.queries
    names,         \* TrinoSource.names
    schema,        \* TrinoSource.schema
    nmeta,         \* number of fetch_metadata calls made (bounded by MaxMeta)
    parts,         \* the partitions: sequence of [query, schema, nrows]
    prod,          \* per partition its TrinoSourcePartitionParser, or NoProducer
    last           \* the last call and what it returned

vars == <<db, srcState, origin_query, queries, names, schema, nmeta, parts, prod, last>>
srcVars == <<srcState, origin_query, queries, names, schema, nmeta>>

\* TrinoSourcePartitionParser: rows, ncols, current_col, current_row; status
\* is "none" (no parser alive), "ready" or "panicked"; calls and oks count the
\* produce calls made and those that returned Ok
NoProducer ==
    [status |-> "none", rows |-> <<>>, ncols |-> 0, current_row |-> 0,
     current_col |-> 0, calls |-> 0, oks |-> 0]

\* the record of a call: op, the partition it was made on, for produce the
\* target and the (ridx, cidx) and cell it read, for fetch_next the cursor it
\* was called at, for set_data_order the order asked for (in t); res is the
\* result, ret the pair fetch_next returns (or the count of result_rows);
\* remote is the number of client.get_all calls the call issued
Call(op, part, t, nullable, ridx, cidx, cell, res, ret) ==
    [op |-> op, part |-> part, t |-> t, nullable |-> nullable, ridx |-> ridx,
     cidx |-> cidx, cell |-> cell, res |-> res, ret |-> ret, remote |-> 0]
WithGetAll(call) == [call EXCEPT !.remote = 1]
NoCall == Call("", 0, "", FALSE, 0, 0, NoVal, NoRes, <<0, FALSE>>)
SrcCall(op, res, n) == Call(op, 0, "", FALSE, 0, 0, NoVal, res, <<n, FALSE>>)
PartCall(op, i, res, n) == Call(op, i, "", FALSE, 0, 0, NoVal, res, <<n, FALSE>>)

(***************************************************************************)
(* TrinoSource (impl Source).                                              *)
(***************************************************************************)
DataOrders == {"RowMajor", "ColumnMajor"}

\* the query lists set_queries is called with
QueryLists == UNION {[1..k -> Queries] : k \in 0..MaxQueries}

\* set_data_order accepting every order
AnyDataOrder(data_order) == TRUE

\* matches!(data_order, DataOrder::RowMajor)
IsRowMajor(data_order) == data_order = "RowMajor"

\* set_data_order: only RowMajor is accepted; nothing is stored
SetDataOrder(data_order) ==
    /\ srcState = "live"
    /\ last' = [SrcCall("set_data_order",
                        IF ~IsRowMajor(data_order)
                        THEN Err("UnsupportedDataOrder", 0, 0, NoVal)
                        ELSE Ok(NoVal), 0) EXCEPT !.t = data_order]
    /\ UNCHANGED <<db, srcVars, parts, prod>>

\* set_queries: the list replaces self.queries
SetQueries(qs) ==
    /\ srcState = "live"
    /\ queries' = qs
    /\ last' = SrcCall("set_queries", Ok(NoVal), 0)
    /\ UNCHANGED <<db, srcState, origin_query, names, schema, nmeta, parts, prod>>

\* set_origin_query
SetOriginQuery(query) ==
    /\ srcState = "live"
    /\ origin_query' = query
    /\ last' = SrcCall("set_origin_query", Ok(NoVal), 0)
    /\ UNCHANGED <<db, srcState, queries, names, schema, nmeta, parts, prod>>

\* the index of the first column whose remote type has no TypeTag, 0 if none
FirstUnsupported(cols) ==
    IF \E i \in 1..Len(cols) : TryFromTrinoType(cols[i][2]) = ""
    THEN CHOOSE i \in 1..Len(cols) :
            /\ TryFromTrinoType(cols[i][2]) = ""
            /\ \A j \in 1..(i - 1) : TryFromTrinoType(cols[j][2]) # ""
    ELSE 0

\* the loop of fetch_metadata over the probe's columns: each round pushes the
\* name, then the TypeTag, and `?` leaves the loop at the first unsupported
\* type, after that column's name was pushed
PushedNames(old, cols) ==
    old \o [i \in 1..(IF FirstUnsupported(cols) = 0 THEN Len(cols)
                      ELSE FirstUnsupported(cols)) |-> cols[i][1]]
PushedSchema(old, cols) ==
    old \o [i \in 1..(IF FirstUnsupported(cols) = 0 THEN Len(cols)
                      ELSE FirstUnsupported(cols) - 1) |->
                TryFromTrinoType(cols[i][2])]

\* fetch_metadata: assert!(!queries.is_empty()), the LIMIT 1 probe of the
\* first query (remoteOk: whether get_all answers), then the push loop
FetchMetadata(remoteOk) ==
    /\ srcState = "live"
    /\ nmeta < MaxMeta
    /\ nmeta' = nmeta + 1
    /\ IF queries = <<>>
       THEN /\ srcState' = "panicked"
            /\ last' = SrcCall("fetch_metadata",
                               Panic("assertion failed: !self.queries.is_empty()"), 0)
            /\ UNCHANGED <<names, schema>>
       ELSE IF ~remoteOk
       THEN /\ last' = WithGetAll(SrcCall("fetch_metadata",
                                          Err("PrustoError", 0, 0, NoVal), 0))
            /\ UNCHANGED <<srcState, names, schema>>
       ELSE /\ names' = PushedNames(names, Columns(limit1_query(queries[1]).sql))
            /\ schema' = PushedSchema(schema, Columns(limit1_query(queries[1]).sql))
            /\ last' = WithGetAll(SrcCall("fetch_metadata",
                               IF FirstUnsupported(Columns(limit1_query(queries[1]).sql)) = 0
                               THEN Ok(NoVal)
                               ELSE Err("UnsupportedType", 0, 0, NoVal), 0))
            /\ UNCHANGED srcState
    /\ UNCHANGED <<db, origin_query, queries, parts, prod>>

\* get_total_rows: the number of rows get_all returns for the query
get_total_rows(q) == Len(RowsOf(q, db))

\* TrinoSource::result_rows: None without an origin query, else its row count
SrcResultRows(remoteOk) ==
    /\ srcState = "live"
    /\ last' = IF origin_query = <<>>
               THEN SrcCall("result_rows", OkNone, 0)
               ELSE IF remoteOk
               THEN WithGetAll(SrcCall("result_rows", OkSome(NoVal),
                                       get_total_rows(origin_query[1])))
               ELSE WithGetAll(SrcCall("result_rows", Err("PrustoError", 0, 0, NoVal), 0))
    /\ UNCHANGED <<db, srcVars, parts, prod>>

\* TrinoSourcePartition::new: the query, a copy of the schema, nrows = 0
\* a partition built without the Source's schema
NewPartitionNoSchema(query, sch) == [query |-> query, schema |-> <<>>, nrows |-> 0]

NewPartition(query, sch) == [query |-> query, schema |-> sch, nrows |-> 0]

\* partition(self): one TrinoSourcePartition per query, in order; the Source
\* is consumed
Partition ==
    /\ srcState = "live"
    /\ srcState' = "consumed"
    /\ parts' = [i \in 1..Len(queries) |-> NewPartition(queries[i], schema)]
    /\ prod' = [i \in 1..Len(queries) |-> NoProducer]
    /\ last' = SrcCall("partition", Ok(NoVal), Len(queries))
    /\ UNCHANGED <<db, origin_query, queries, names, schema, nmeta>>

(***************************************************************************)
(* TrinoSourcePartition (impl SourcePartition).  parser() borrows the      *)
(* partition mutably for the life of the parser, so result_rows and        *)
(* parser are callable only while no parser of the partition is alive.     *)
(***************************************************************************)
\* result_rows whose failure stores 0
PartResultRowsReset(i, remoteOk) ==
    /\ prod[i].status = "none"
    /\ IF remoteOk
       THEN /\ parts' = [parts EXCEPT ![i].nrows = get_total_rows(parts[i].query)]
            /\ last' = WithGetAll(PartCall("part_result_rows", i, Ok(NoVal), 0))
       ELSE /\ last' = WithGetAll(PartCall("part_result_rows", i,
                                           Err("PrustoError", 0, 0, NoVal), 0))
            /\ parts' = [parts EXCEPT ![i].nrows = 0]
    /\ UNCHANGED <<db, srcVars, prod>>

\* result_rows: nrows = get_total_rows(query)?; an error leaves nrows alone
PartResultRows(i, remoteOk) ==
    /\ prod[i].status = "none"
    /\ IF remoteOk
       THEN /\ parts' = [parts EXCEPT ![i].nrows = get_total_rows(parts[i].query)]
            /\ last' = WithGetAll(PartCall("part_result_rows", i, Ok(NoVal), 0))
       ELSE /\ last' = WithGetAll(PartCall("part_result_rows", i,
                                           Err("PrustoError", 0, 0, NoVal), 0))
            /\ UNCHANGED parts
    /\ UNCHANGED <<db, srcVars, prod>>

\* a parser that counts only the columns it has a non-text TypeTag for
NewParserTyped(query, sch) ==
    [status |-> "ready", rows |-> RowsOf(query, db),
     ncols |-> Cardinality({c \in DOMAIN sch : sch[c] # "String"}),
     current_row |-> 0, current_col |-> 0, calls |-> 0, oks |-> 0]

\* TrinoSourcePartitionParser::new: the rows of the whole result, ncols the
\* length of the partition's schema, the cursor at (0, 0)
NewParser(query, sch) ==
    [status |-> "ready", rows |-> RowsOf(query, db), ncols |-> Len(sch),
     current_row |-> 0, current_col |-> 0, calls |-> 0, oks |-> 0]

\* parser(): TrinoSourcePartitionParser::new(...)?
Parser(i, remoteOk) ==
    /\ prod[i].status = "none"
    /\ IF remoteOk
       THEN /\ prod' = [prod EXCEPT ![i] = NewParser(parts[i].query, parts[i].schema)]
            /\ last' = WithGetAll(PartCall("parser", i, Ok(NoVal), 0))
       ELSE /\ last' = WithGetAll(PartCall("parser", i, Err("PrustoError", 0, 0, NoVal), 0))
            /\ UNCHANGED prod
    /\ UNCHANGED <<db, srcVars, parts>>

\* the parser goes out of scope
DropParser(i) ==
    /\ prod[i].status = "ready"
    /\ prod' = [prod EXCEPT ![i] = NoProducer]
    /\ last' = PartCall("drop", i, Ok(NoVal), 0)
    /\ UNCHANGED <<db, srcVars, parts>>

\* the accessors
nrows(i) == parts[i].nrows
ncols(i) == Len(parts[i].schema)

(***************************************************************************)
(* TrinoSourcePartitionParser: next_loc, fetch_next and produce.           *)
(***************************************************************************)
\* next_loc without the wrap of the column
NextLocNoWrap(p) ==
    [ridx |-> p.current_row,
     cidx |-> p.current_col,
     current_row |-> p.current_row + ((p.current_col + 1) \div p.ncols),
     current_col |-> p.current_col + 1]

\* next_loc returning the position it advanced to instead of the one it left
NextLocAdvanced(p) ==
    [ridx |-> p.current_row + ((p.current_col + 1) \div p.ncols),
     cidx |-> (p.current_col + 1) % p.ncols,
     current_row |-> p.current_row + ((p.current_col + 1) \div p.ncols),
     current_col |-> (p.current_col + 1) % p.ncols]

\* next_loc, for ncols > 0: returns (current_row, current_col) and advances
\* the cursor, column first
NextLoc(p) ==
    [ridx |-> p.current_row,
     cidx |-> p.current_col,
     current_row |-> p.current_row + ((p.current_col + 1) \div p.ncols),
     current_col |-> (p.current_col + 1) % p.ncols]

\* fetch_next reporting the rows not yet read
FetchNextRemaining(p) == <<Len(p.rows) - p.current_row, TRUE>>

\* what fetch_next returns: (self.rows.len(), true)
FetchNextRet(p) == <<Len(p.rows), TRUE>>

\* fetch_next without its assertion
FetchNextNoAssert(p) == TRUE

\* the assertion of fetch_next
FetchNextAssert(p) == p.current_col = 0

\* fetch_next: assert!(self.current_col == 0); (self.rows.len(), true)
FetchNext(i) ==
    /\ prod[i].status = "ready"
    /\ IF FetchNextAssert(prod[i])
       THEN /\ last' = Call("fetch_next", i, "", FALSE, prod[i].current_row,
                            prod[i].current_col, NoVal, Ok(NoVal), FetchNextRet(prod[i]))
            /\ UNCHANGED prod
       ELSE /\ last' = Call("fetch_next", i, "", FALSE, prod[i].current_row,
                            prod[i].current_col, NoVal,
                            Panic("assertion failed: self.current_col == 0"),
                            <<0, FALSE>>)
            /\ prod' = [prod EXCEPT ![i].status = "panicked"]
    /\ UNCHANGED <<db, srcVars, parts>>

\* the cell produce reads: &self.rows[ridx].value()[cidx]; both indexings
\* are bounds-checked and panic out of range
InBounds(p, ridx, cidx) == ridx < Len(p.rows) /\ cidx < Len(p.rows[ridx + 1])
CellAt(p, ridx, cidx) == p.rows[ridx + 1][cidx + 1]

\* produce::<T>() or produce::<Option<T>>(): next_loc (which divides by
\* ncols and panics when it is 0, before any assignment), then the indexing
\* of the cell at the returned position, then the conversion
ProduceResult(p, t, nullable) ==
    IF p.ncols = 0 THEN Panic("attempt to divide by zero")
    ELSE IF ~InBounds(p, NextLoc(p).ridx, NextLoc(p).cidx)
    THEN Panic("index out of bounds")
    ELSE Convert(t, nullable, CellAt(p, NextLoc(p).ridx, NextLoc(p).cidx),
                 NextLoc(p).ridx, NextLoc(p).cidx)

\* produce that moves the cursor only when the conversion succeeded
ProduceKeepOnError(i, t, nullable) ==
    LET p == prod[i]
        res == ProduceResult(p, t, nullable)
        moved == IF p.ncols = 0 \/ res.st = "Err" THEN p
                 ELSE [p EXCEPT !.current_row = NextLoc(p).current_row,
                                !.current_col = NextLoc(p).current_col]
    IN /\ p.status = "ready"
       /\ prod' = [prod EXCEPT ![i] =
                      [moved EXCEPT !.calls = @ + 1,
                                    !.oks = IF res.st = "Ok" THEN @ + 1 ELSE @,
                                    !.status = IF res.st = "Panic" THEN "panicked"
                                               ELSE "ready"]]
       /\ last' = Call("produce", i, t, nullable,
                       IF p.ncols = 0 THEN p.current_row ELSE NextLoc(p).ridx,
                       IF p.ncols = 0 THEN p.current_col ELSE NextLoc(p).cidx,
                       IF p.ncols # 0 /\ InBounds(p, NextLoc(p).ridx, NextLoc(p).cidx)
                       THEN CellAt(p, NextLoc(p).ridx, NextLoc(p).cidx) ELSE NoVal,
                       res, <<0, FALSE>>)
       /\ UNCHANGED <<db, srcVars, parts>>

\* produce on a cursor shared by the producers of all partitions
ProduceShared(i, t, nullable) ==
    LET p == prod[i]
        res == ProduceResult(p, t, nullable)
        moved(q) == IF q.ncols = 0 \/ q.status # "ready" THEN q
                    ELSE [q EXCEPT !.current_row = NextLoc(q).current_row,
                                   !.current_col = NextLoc(q).current_col]
    IN /\ p.status = "ready"
       /\ prod' = [j \in DOMAIN prod |->
                      IF j # i THEN moved(prod[j])
                      ELSE [moved(p) EXCEPT !.calls = @ + 1,
                                            !.oks = IF res.st = "Ok" THEN @ + 1 ELSE @,
                                            !.status = IF res.st = "Panic" THEN "panicked"
                                                       ELSE "ready"]]
       /\ last' = Call("produce", i, t, nullable,
                       IF p.ncols = 0 THEN p.current_row ELSE NextLoc(p).ridx,
                       IF p.ncols = 0 THEN p.current_col ELSE NextLoc(p).cidx,
                       IF p.ncols # 0 /\ InBounds(p, NextLoc(p).ridx, NextLoc(p).cidx)
                       THEN CellAt(p, NextLoc(p).ridx, NextLoc(p).cidx) ELSE NoVal,
                       res, <<0, FALSE>>)
       /\ UNCHANGED <<db, srcVars, parts>>

Produce(i, t, nullable) ==
    LET p == prod[i]
        res == ProduceResult(p, t, nullable)
        moved == IF p.ncols = 0 THEN p
                 ELSE [p EXCEPT !.current_row = NextLoc(p).current_row,
                                !.current_col = NextLoc(p).current_col]
    IN /\ p.status = "ready"
       /\ prod' = [prod EXCEPT ![i] =
                      [moved EXCEPT !.calls = @ + 1,
                                    !.oks = IF res.st = "Ok" THEN @ + 1 ELSE @,
                                    !.status = IF res.st = "Panic" THEN "panicked"
                                               ELSE "ready"]]
       /\ last' = Call("produce", i, t, nullable,
                       IF p.ncols = 0 THEN p.current_row ELSE NextLoc(p).ridx,
                       IF p.ncols = 0 THEN p.current_col ELSE NextLoc(p).cidx,
                       IF p.ncols # 0 /\ InBounds(p, NextLoc(p).ridx, NextLoc(p).cidx)
                       THEN CellAt(p, NextLoc(p).ridx, NextLoc(p).cidx) ELSE NoVal,
                       res, <<0, FALSE>>)
       /\ UNCHANGED <<db, srcVars, parts>>

(***************************************************************************)
(* Specifications.                                                         *)
(***************************************************************************)
\* names and schema after k answered probes of query q0 on a fresh Source
RECURSIVE MetaAfter(_, _)
MetaAfter(k, q0) ==
    IF k = 0 THEN [names |-> <<>>, schema |-> <<>>]
    ELSE [names |-> PushedNames(MetaAfter(k - 1, q0).names, Columns(q0)),
          schema |-> PushedSchema(MetaAfter(k - 1, q0).schema, Columns(q0))]

\* SpecSource: a Source after construction, driven through its operations
\* up to partition(), which consumes it
InitSource ==
    /\ db \in {d \in Databases : d.seed = 0}
    /\ srcState = "live"
    /\ origin_query = <<>>
    /\ queries = <<>>
    /\ names = <<>>
    /\ schema = <<>>
    /\ nmeta = 0
    /\ parts = <<>>
    /\ prod = <<>>
    /\ last = NoCall

NextSource ==
    \/ \E o \in DataOrders : SetDataOrder(o)
    \/ \E qs \in QueryLists : SetQueries(qs)
    \/ \E oq \in {<<>>} \cup {<<q>> : q \in Queries} : SetOriginQuery(oq)
    \/ \E ok \in BOOLEAN : FetchMetadata(ok)
    \/ \E ok \in BOOLEAN : SrcResultRows(ok)
    \/ Partition

SpecSource == InitSource /\ [][NextSource]_vars

(***************************************************************************)
(* TrinoSource::new.  The connection strings it is called with, and what   *)
(* urlencoding::decode and url::Url make of each.                          *)
(***************************************************************************)
ConnPlain == "trino://alice@h/hive"
ConnSecure == "trino+https://u:p@host:443/hive"
ConnNotUrl == "not a url"
ConnNoHost == "trino:hive"
ConnBadUtf8 == "trino://a%FF@h/hive"
Conns == {ConnPlain, ConnSecure, ConnNotUrl, ConnNoHost, ConnBadUtf8}

\* decode(conn): percent-decoding; the decoded bytes must be UTF-8
decode(conn) ==
    IF conn = ConnBadUtf8 THEN [ok |-> FALSE, s |-> ""] ELSE [ok |-> TRUE, s |-> conn]

\* decoded_conn.parse::<url::Url>(): a string without a scheme is refused;
\* "trino:hive" parses as a cannot-be-a-base URL, which has neither a host
\* nor path segments
ParseUrl(str) ==
    CASE str = ConnPlain ->
            [ok |-> TRUE, scheme |-> "trino", username |-> "alice",
             host |-> <<"h">>, port |-> <<>>, path_segments |-> << <<"hive">> >>]
      [] str = ConnSecure ->
            [ok |-> TRUE, scheme |-> "trino+https", username |-> "u",
             host |-> <<"host">>, port |-> <<443>>, path_segments |-> << <<"hive">> >>]
      [] str = ConnNoHost ->
            [ok |-> TRUE, scheme |-> "trino", username |-> "",
             host |-> <<>>, port |-> <<>>, path_segments |-> <<>>]
      [] OTHER ->
            [ok |-> FALSE, scheme |-> "", username |-> "",
             host |-> <<>>, port |-> <<>>, path_segments |-> <<>>]

\* the result of new(rt, conn): decode(conn)?, parse()?, url.host().unwrap(),
\* url.path_segments().unwrap(), build()?
NewResult(conn, buildOk) ==
    IF ~decode(conn).ok THEN Err("FromUtf8Error", 0, 0, NoVal)
    ELSE IF ~ParseUrl(decode(conn).s).ok THEN Err("UrlParseError", 0, 0, NoVal)
    ELSE IF ParseUrl(decode(conn).s).host = <<>>
         THEN Panic("called Option::unwrap() on a None value")
    ELSE IF ParseUrl(decode(conn).s).path_segments = <<>>
         THEN Panic("called Option::unwrap() on a None value")
    ELSE IF ~buildOk THEN Err("PrustoError", 0, 0, NoVal)
    ELSE Ok(NoVal)

\* TrinoSource::new(rt, conn): on success the Source exists with no origin
\* query and empty queries, names and schema; otherwise no Source exists
New(conn, buildOk) ==
    /\ srcState = "none"
    /\ last' = [SrcCall("new", NewResult(conn, buildOk), 0) EXCEPT !.t = conn]
    /\ IF NewResult(conn, buildOk).st = "Ok"
       THEN /\ srcState' = "live"
            /\ origin_query' = <<>>
            /\ queries' = <<>>
            /\ names' = <<>>
            /\ schema' = <<>>
       ELSE UNCHANGED <<srcState, origin_query, queries, names, schema>>
    /\ UNCHANGED <<db, nmeta, parts, prod>>

\* SpecNew: SpecSource from before the Source is constructed
InitNew ==
    /\ db \in {d \in Databases : d.seed = 0}
    /\ srcState = "none"
    /\ origin_query = <<>>
    /\ queries = <<>>
    /\ names = <<>>
    /\ schema = <<>>
    /\ nmeta = 0
    /\ parts = <<>>
    /\ prod = <<>>
    /\ last = NoCall

NextNew ==
    \/ \E conn \in Conns, buildOk \in BOOLEAN : New(conn, buildOk)
    \/ NextSource

SpecNew == InitNew /\ [][NextNew]_vars

\* Spec: one partition as partition() leaves it (a state SpecSource ends
\* in), of a Source whose schema came from k answered probes of q0 and whose
\* query list was then set to <<q>>; the partition is driven through
\* result_rows, parser, produce and fetch_next
Init ==
    /\ db \in Databases
    /\ srcState = "consumed"
    /\ origin_query = <<>>
    /\ \E q0 \in {QA, QB}, q \in {QA, QB}, k \in 0..MaxMeta :
          /\ queries = <<q>>
          /\ names = MetaAfter(k, q0).names
          /\ schema = MetaAfter(k, q0).schema
          /\ nmeta = k
          /\ parts = <<NewPartition(q, MetaAfter(k, q0).schema)>>
    /\ prod = <<NoProducer>>
    /\ last = SrcCall("partition", Ok(NoVal), 1)

Next ==
    \/ \E i \in 1..Len(parts), ok \in BOOLEAN : PartResultRows(i, ok)
    \/ \E i \in 1..Len(parts), ok \in BOOLEAN : Parser(i, ok)
    \/ \E i \in 1..Len(parts) : DropParser(i)
    \/ \E i \in 1..Len(parts) : FetchNext(i)
    \/ \E i \in 1..Len(parts), t \in Targets, nullable \in BOOLEAN : Produce(i, t, nullable)

Spec == Init /\ [][Next]_vars

\* SpecPair: the two partitions partition() returns for the query list
\* <<QA, QB>> of a Source whose schema came from one answered probe of QA,
\* driven in every interleaving
PairSeeds == {0, 3}

InitPair ==
    /\ db \in {d \in Databases : d.seed \in PairSeeds}
    /\ srcState = "consumed"
    /\ origin_query = <<>>
    /\ queries = <<QA, QB>>
    /\ names = MetaAfter(1, QA).names
    /\ schema = MetaAfter(1, QA).schema
    /\ nmeta = 1
    /\ parts = [i \in 1..2 |-> NewPartition(queries[i], MetaAfter(1, QA).schema)]
    /\ prod = [i \in 1..2 |-> NoProducer]
    /\ last = SrcCall("partition", Ok(NoVal), 2)

SpecPair == InitPair /\ [][Next]_vars

(***************************************************************************)
(* Properties.                                                             *)
(***************************************************************************)
\* the producers that exist
Producers == {i \in 1..Len(prod) : prod[i].status # "none"}

\* the number of columns of the rows a partition's query returns
RowWidth(i) == Len(Columns(parts[i].query))

\* the last call was a produce on partition i
LastProduce(i) == last.op = "produce" /\ last.part = i

\* C1: for a producer with ncols >= 1, while every produce call so far was
\* successful (k = oks = calls), the cursor is (k div ncols, k mod ncols); and
\* a successful produce leaves the cursor at c' = (c+1) mod ncols,
\* r' = r + (c+1) div ncols of the position (r, c) it was called at.
C1_CursorAfterSuccessfulCalls ==
    \A i \in Producers :
        prod[i].ncols >= 1 =>
            /\ prod[i].oks = prod[i].calls =>
                  /\ prod[i].current_row = prod[i].oks \div prod[i].ncols
                  /\ prod[i].current_col = prod[i].oks % prod[i].ncols
            /\ (LastProduce(i) /\ last.res.st = "Ok") =>
                  /\ prod[i].current_col = (last.cidx + 1) % prod[i].ncols
                  /\ prod[i].current_row = last.ridx + ((last.cidx + 1) \div prod[i].ncols)

\* C1 witness: three successful calls, of both variants, on two columns
C1_Witness ==
    \E i \in Producers :
        /\ prod[i].ncols = 2
        /\ prod[i].oks = 3
        /\ prod[i].calls = 3
        /\ prod[i].current_row = 1
        /\ prod[i].current_col = 1
        /\ LastProduce(i)
        /\ last.nullable

\* C2: with ncols the width of the rows, a produce call made at the terminal
\* cursor (current_row = nrows) returns the error CursorExhausted as a value,
\* and no call made before the terminal cursor reports exhaustion.
C2_ExhaustionIsAnError ==
    \A i \in Producers :
        (LastProduce(i) /\ prod[i].ncols = RowWidth(i)) =>
            IF last.ridx = Len(prod[i].rows)
            THEN last.res.st = "Err" /\ last.res.msg = "CursorExhausted"
            ELSE last.res.msg # "CursorExhausted"

\* C3: in every state of a producer (ncols the width of the rows), whatever
\* calls were made, 0 <= current_col < ncols and 0 <= current_row <= nrows.
C3_CursorInBounds ==
    \A i \in Producers :
        prod[i].ncols = RowWidth(i) =>
            /\ 0 <= prod[i].current_col
            /\ prod[i].current_col < prod[i].ncols
            /\ 0 <= prod[i].current_row
            /\ prod[i].current_row <= Len(prod[i].rows)

\* the produced value is the value of the cell: None for Null, the integer,
\* the float (rounded to the target), the boolean, the text or its parse
Carries(res, cell) ==
    IF res.opt = "None" THEN cell.tag = "Null"
    ELSE CASE res.v.tag \in IntTargets ->
                 cell.tag = "Number" /\ res.v.hi = cell.hi /\ res.v.lo = cell.lo
           [] res.v.tag = "f64" ->
                 /\ cell.tag = "Number"
                 /\ res.v.hi = cell.hi /\ res.v.lo = cell.lo /\ res.v.frac = cell.frac
           [] res.v.tag = "f32" ->
                 /\ cell.tag = "Number"
                 /\ res.v.hi = cell.hi /\ res.v.lo = cell.lo
                 /\ res.v.frac - cell.frac < F32Unit
                 /\ cell.frac - res.v.frac < F32Unit
           [] res.v.tag = "bool" -> cell.tag = "Bool" /\ res.v.frac = cell.frac
           [] res.v.tag \in TextTargets -> cell.tag = "String" /\ res.v.s = cell.s
           [] res.v.tag = "NaiveDate" -> cell.tag = "String" /\ res.v = ParseDate(cell.s).v
           [] res.v.tag = "NaiveTime" -> cell.tag = "String" /\ res.v = ParseTime(cell.s).v
           [] res.v.tag = "NaiveDateTime" ->
                 cell.tag = "String" /\ res.v = ParseDateTime(cell.s).v

\* C4: the i-th produce call (0-based, i = calls - 1) of a producer that
\* reads a cell reads the cell at row i div ncols, column i mod ncols of the
\* batch, and a successful call returns the value of that cell.
C4_CellsInRowMajorOrder ==
    \A i \in Producers :
        (LastProduce(i) /\ last.res.st # "Panic") =>
            /\ last.ridx = (prod[i].calls - 1) \div prod[i].ncols
            /\ last.cidx = (prod[i].calls - 1) % prod[i].ncols
            /\ last.cell = prod[i].rows[((prod[i].calls - 1) \div prod[i].ncols) + 1]
                                       [((prod[i].calls - 1) % prod[i].ncols) + 1]
            /\ last.res.st = "Ok" =>
                  /\ last.res.v.tag = (IF last.res.opt = "None" THEN "" ELSE last.t)
                  /\ Carries(last.res, last.cell)

\* C4 witness: rows [[1, "a"], [2, null]] read by four successful calls, the
\* last one produce::<Option<String>>() returning None
C4_Witness ==
    \E i \in Producers :
        /\ prod[i].rows = << <<JPosInt(0, 1), JString("a")>>, <<JPosInt(0, 2), JNull>> >>
        /\ prod[i].ncols = 2
        /\ prod[i].calls = 4
        /\ prod[i].oks = 4
        /\ LastProduce(i)
        /\ last.t = "String"
        /\ last.nullable
        /\ last.res = OkNone

\* C5: produce::<Option<T>> returns None iff the cell is Null; on a non-null
\* cell it returns Some(x) exactly when produce::<T> returns x and fails
\* exactly when produce::<T> fails; produce::<T> fails on Null; and both
\* variants leave the cursor at the same place.
C5_NullableAgreesWithPlain ==
    \A i \in Producers :
        (LastProduce(i) /\ last.res.st # "Panic") =>
            LET plain == Convert(last.t, FALSE, last.cell, last.ridx, last.cidx)
            IN /\ last.nullable =>
                     /\ (last.res = OkNone) <=> (last.cell.tag = "Null")
                     /\ last.cell.tag # "Null" =>
                           /\ plain.st = "Ok" => last.res = OkSome(plain.v)
                           /\ plain.st = "Err" <=> last.res.st = "Err"
               /\ (~last.nullable /\ last.cell.tag = "Null") => last.res.st = "Err"
               /\ prod[i].current_col = (last.cidx + 1) % prod[i].ncols
               /\ prod[i].current_row = last.ridx + ((last.cidx + 1) \div prod[i].ncols)

\* C5 witness: a nullable produce returned None on a Null cell
C5_Witness ==
    \E i \in Producers :
        /\ LastProduce(i)
        /\ last.nullable
        /\ last.cell = JNull
        /\ last.res = OkNone

\* the last call was a produce on partition i for an integer target that
\* read a cell, the Null of a nullable call aside
LastIntProduce(i) ==
    /\ LastProduce(i)
    /\ last.t \in IntTargets
    /\ last.res.st # "Panic"
    /\ ~(last.nullable /\ last.cell.tag = "Null")

\* the cell is a JSON Number with an integer value within the width of t
IntegerInRange(t, cell) ==
    /\ cell.tag = "Number"
    /\ cell.kind \in {"PosInt", "NegInt"}
    /\ IntLeq(IntMin(Width(t)), [hi |-> cell.hi, lo |-> cell.lo])
    /\ IntLeq([hi |-> cell.hi, lo |-> cell.lo], IntMax(Width(t)))

\* the cell is a JSON Number with an integer value outside the width of t
IntegerOutOfRange(t, cell) ==
    /\ cell.tag = "Number"
    /\ cell.kind \in {"PosInt", "NegInt"}
    /\ ~IntegerInRange(t, cell)

C7_FloatAcceptsEveryNumber ==
    \A i \in Producers :
        (LastProduce(i) /\ last.t \in FloatTargets /\ last.res.st # "Panic") =>
            IF last.cell.tag = "Number"
            THEN /\ last.res.st = "Ok"
                 /\ last.res.v = FloatVal(last.t, CastFloat(last.t, as_f64(last.cell)))
            ELSE (last.res.st = "Err") <=> ~(last.nullable /\ last.cell.tag = "Null")

\* C8: a fetch_next called with current_col = 0, at any row, returns
\* (number of rows of the batch, true) and changes neither the producer
\* (cursor, batch) nor the partition.
C8_FetchNextReportsBatchSize ==
    [][\A i \in 1..Len(prod) :
          (/\ prod[i].status = "ready"
           /\ prod[i].current_col = 0
           /\ last'.op = "fetch_next"
           /\ last'.part = i) =>
              /\ last'.res.st = "Ok"
              /\ last'.ret = <<Len(prod[i].rows), TRUE>>
              /\ prod'[i] = prod[i]
              /\ parts' = parts]_vars

\* C8 witness: fetch_next answered (2, true) at the terminal cursor of a
\* batch of two rows, all of whose cells were read
C8_Witness ==
    \E i \in Producers :
        /\ last.op = "fetch_next"
        /\ last.part = i
        /\ last.ret = <<2, TRUE>>
        /\ prod[i].current_row = 2
        /\ prod[i].current_col = 0
        /\ prod[i].calls = 2 * prod[i].ncols

\* C9 as stated: fetch_next never fails, wherever the cursor is.
C9_FetchNextNeverFails ==
    last.op = "fetch_next" => last.res.st = "Ok"

\* C9 as amended: fetch_next never fails when called with current_col = 0;
\* called mid-row (current_col # 0) it aborts on its assertion.
C9_FetchNextFailsOnlyMidRow ==
    \A i \in Producers :
        (last.op = "fetch_next" /\ last.part = i) =>
            /\ last.cidx = 0 => last.res.st = "Ok"
            /\ last.cidx # 0 => (last.res.st = "Panic" /\ prod[i].status = "panicked")

\* C9 witness: fetch_next succeeded at a row boundary after a row was read
C9_Witness ==
    \E i \in Producers :
        /\ last.op = "fetch_next"
        /\ last.part = i
        /\ last.res.st = "Ok"
        /\ prod[i].ncols = 2
        /\ prod[i].calls = 2
        /\ prod[i].current_row = 1

\* C10: after every successful fetch_metadata, a repeated one included,
\* names and schema list exactly the columns of the probe of the first
\* query, in order.
C10_MetadataListsProbeColumns ==
    (last.op = "fetch_metadata" /\ last.res.st = "Ok") =>
        /\ Len(names) = Len(Columns(queries[1]))
        /\ Len(schema) = Len(Columns(queries[1]))
        /\ \A j \in 1..Len(names) : names[j] = Columns(queries[1])[j][1]

\* C11: fetch_metadata called while the query list is empty returns the
\* error EmptyQueries to the caller, issues no remote query and leaves names
\* and schema unchanged.
C11_EmptyQueriesIsAnError ==
    [][(queries = <<>> /\ last'.op = "fetch_metadata") =>
          /\ last'.res.st = "Err"
          /\ last'.res.msg = "EmptyQueries"
          /\ last'.remote = 0
          /\ names' = names
          /\ schema' = schema]_vars

\* C12: set_data_order succeeds iff the order asked for is RowMajor, fails
\* with UnsupportedDataOrder otherwise, and in both cases leaves queries,
\* origin query, names and schema unchanged.
C12_OnlyRowMajor ==
    [][last'.op = "set_data_order" =>
          /\ (last'.res.st = "Ok") <=> (last'.t = "RowMajor")
          /\ last'.t # "RowMajor" =>
                (last'.res.st = "Err" /\ last'.res.msg = "UnsupportedDataOrder")
          /\ UNCHANGED <<queries, origin_query, names, schema>>]_vars

\* C12 witness: ColumnMajor was refused on a Source with queries, an origin
\* query and discovered columns
C12_Witness ==
    /\ last.op = "set_data_order"
    /\ last.t = "ColumnMajor"
    /\ last.res.st = "Err"
    /\ queries # <<>>
    /\ origin_query # <<>>
    /\ names # <<>>
    /\ srcState = "live"

\* C13: partition() returns one Partition per query of the query list, in
\* the same order; partition i holds query i and a copy of the Source's
\* schema, so its ncols() is the length of the Source's schema, and its
\* nrows() is 0; partition() issues no remote query.
C13_OnePartitionPerQuery ==
    last.op = "partition" =>
        /\ last.res.st = "Ok"
        /\ last.remote = 0
        /\ Len(parts) = Len(queries)
        /\ \A i \in 1..Len(parts) :
              /\ parts[i].query = queries[i]
              /\ parts[i].schema = schema
              /\ ncols(i) = Len(schema)
              /\ nrows(i) = 0

\* C13 witness: two different queries partitioned, in order, with a schema
\* of two columns
C13_Witness ==
    /\ last.op = "partition"
    /\ Len(parts) = 2
    /\ parts[1].query = QB
    /\ parts[2].query = QA
    /\ ncols(2) = 2

\* C14: Source construction never aborts: a connection string that is not a
\* URL fails with an error value, a URL with no host fails with an error
\* value, and a successful construction leaves a Source with empty query
\* list, names and schema.
C14_ConstructionNeverAborts ==
    last.op = "new" =>
        /\ last.res.st \in {"Ok", "Err"}
        /\ last.t = ConnNotUrl => last.res.st = "Err"
        /\ last.t = ConnNoHost => last.res.st = "Err"
        /\ last.res.st = "Ok" =>
              (srcState = "live" /\ queries = <<>> /\ names = <<>> /\ schema = <<>>)

\* what the k-th produce::<t> (k from 0) of a producer of partition i returns
\* when the producer is driven alone: the conversion of cell k, in row-major
\* order, of the rows of the partition's own query
AloneResult(i, k, t, nullable) ==
    LET n == ncols(i)
        rows == RowsOf(parts[i].query, db)
    IN IF (k \div n) < Len(rows) /\ (k % n) < Len(rows[(k \div n) + 1])
       THEN Convert(t, nullable, rows[(k \div n) + 1][(k % n) + 1], k \div n, k % n)
       ELSE Panic("index out of bounds")

\* C15: producers of different partitions are independent under every
\* interleaving: a step of one partition (a produce, a fetch_next, a parser()
\* or a result_rows, failing or not) changes nothing in the producer, the
\* schema or the nrows of any other partition, and every produce of a
\* producer returns the result and leaves the cursor it would have if the
\* producer were driven alone.
C15_PartitionsIndependent ==
    [][\A i \in 1..Len(parts) :
          /\ last'.part # i => (prod'[i] = prod[i] /\ parts'[i] = parts[i])
          /\ (last'.op = "produce" /\ last'.part = i /\ ncols(i) >= 1) =>
                /\ last'.ridx = prod[i].calls \div ncols(i)
                /\ last'.cidx = prod[i].calls % ncols(i)
                /\ last'.res = AloneResult(i, prod[i].calls, last'.t, last'.nullable)
                /\ prod'[i].current_row = (prod[i].calls + 1) \div ncols(i)
                /\ prod'[i].current_col = (prod[i].calls + 1) % ncols(i)
                /\ parts'[i] = parts[i]]_vars

\* C15 witness: the producer of partition 2 has panicked, and the producer
\* of partition 1 then produced its second cell successfully
C15_Witness ==
    /\ Len(parts) = 2
    /\ prod[2].status = "panicked"
    /\ prod[2].calls >= 2
    /\ prod[1].status = "ready"
    /\ prod[1].calls = 2
    /\ prod[1].oks = 2
    /\ LastProduce(1)
    /\ last.res.st = "Ok"

\* C16: a partition's nrows() is 0 as partition() leaves it; a successful
\* result_rows() sets it to the number of rows the partition's query returns;
\* a failed result_rows(), parser() and every produce and fetch_next leave it
\* unchanged.
C16_NrowsOnlyByResultRows ==
    [][\A i \in 1..Len(parts) :
          /\ last.op = "partition" => nrows(i) = 0
          /\ IF last'.op = "part_result_rows" /\ last'.part = i /\ last'.res.st = "Ok"
             THEN parts'[i].nrows = Len(RowsOf(parts[i].query, db))
             ELSE parts'[i].nrows = parts[i].nrows]_vars

\* C16 witness: result_rows() had stored 2 and a later result_rows() failed
\* and left the 2
C16_Witness ==
    /\ last.op = "part_result_rows"
    /\ last.res.st = "Err"
    /\ nrows(1) = 2

\* the TypeTag of column c of a schema replaced by a different one
Retag(sch, c) == [sch EXCEPT ![c] = IF @ = "String" THEN "Int8" ELSE "String"]

\* schemas of the same length as sch whose TypeTags differ from it: in the
\* first column only, or in every column
TwinSchemas(sch) ==
    ({Retag(sch, c) : c \in DOMAIN sch \cap {1}}
        \cup {[c \in DOMAIN sch |-> Retag(sch, c)[c]]}) \ {sch}

\* C17: the producer performs no dispatch on the schema. For a producer and
\* its twin over the same query with a schema of the same length but
\* different TypeTags: parser() builds the same producer for both, and at
\* every produce<T> call the twin, at the same cursor, returns the same
\* result or error and moves to the same cursor; the result is the
\* conversion to T of the JSON value of the current cell.
C17_NoDispatchOnSchema ==
    [][\A i \in 1..Len(parts) :
          /\ (last'.op = "parser" /\ last'.part = i /\ last'.res.st = "Ok") =>
                \A s \in TwinSchemas(parts[i].schema) :
                    prod'[i] = NewParser(parts[i].query, s)
          /\ (last'.op = "produce" /\ last'.part = i /\ prod[i].ncols >= 1) =>
                /\ \A s \in TwinSchemas(parts[i].schema) :
                      LET twin == [NewParser(parts[i].query, s) EXCEPT
                                      !.current_row = prod[i].current_row,
                                      !.current_col = prod[i].current_col,
                                      !.calls = prod[i].calls,
                                      !.oks = prod[i].oks]
                      IN /\ twin = prod[i]
                         /\ ProduceResult(twin, last'.t, last'.nullable) = last'.res
                         /\ NextLoc(twin).current_row = prod'[i].current_row
                         /\ NextLoc(twin).current_col = prod'[i].current_col
                /\ last'.res.st # "Panic" =>
                      last'.res = Convert(last'.t, last'.nullable, last'.cell,
                                          last'.ridx, last'.cidx)]_vars

\* C17 witness: a producer whose schema declares column 1 as Int64 returned a
\* text from that column to a produce::<String> on a text cell of row 2, where
\* produce::<i64> on the same column of row 1 had succeeded
C17_Witness ==
    /\ LastProduce(1)
    /\ Len(parts[1].schema) >= 1
    /\ parts[1].schema[1] = "Int64"
    /\ TwinSchemas(parts[1].schema) # {}
    /\ last.cidx = 0
    /\ last.t = "String"
    /\ last.res.st = "Ok"
    /\ prod[1].oks >= 2

\* the index of the cursor's cell in row-major order
CellIndex(p) == p.current_row * p.ncols + p.current_col

\* C18: every produce call made while the cursor is not terminal (ncols >= 1,
\* current_row below the number of rows) reads the cell at the cursor and
\* advances the cursor by exactly one cell, whether the call succeeds or
\* fails in the conversion; so the produce after a failed one reads the
\* following cell.
C18_FailedProduceConsumesItsCell ==
    [][\A i \in 1..Len(parts) :
          (/\ last'.op = "produce"
           /\ last'.part = i
           /\ prod[i].ncols >= 1
           /\ prod[i].current_row < Len(prod[i].rows)) =>
              /\ last'.ridx = prod[i].current_row
              /\ last'.cidx = prod[i].current_col
              /\ CellIndex(prod'[i]) = CellIndex(prod[i]) + 1
              /\ prod'[i].current_col < prod[i].ncols
              /\ prod[i].current_col < RowWidth(i) => last'.res.st \in {"Ok", "Err"}]_vars

\* C18 witness: of two produce calls the first failed in its conversion, and
\* the second read the cell after it and succeeded
C18_Witness ==
    /\ LastProduce(1)
    /\ prod[1].calls = 2
    /\ prod[1].oks = 1
    /\ last.res.st = "Ok"
    /\ last.ridx * prod[1].ncols + last.cidx = 1
    /\ CellIndex(prod[1]) = 2

\* C19: in every reachable Source state, including the one a failed
\* fetch_metadata leaves, names and schema have the same length.
C19_NamesAndSchemaSameLength ==
    Len(names) = Len(schema)

\* C20: every producer reachable through the public operations, in
\* particular one of a partition taken without a successful fetch_metadata,
\* has ncols >= 1, and no produce divides by zero.
C20_ProducerHasColumns ==
    \A i \in Producers :
        /\ prod[i].ncols >= 1
        /\ LastProduce(i) => last.res # Panic("attempt to divide by zero")

====
